---- MODULE Spec2Model ----
(***************************************************************************)
(* Model of getLabel.py: one run of the Kaufland shipping-label script.    *)
(* The run fetches the order rows, aggregates them, posts a signed label   *)
(* request, downloads and stores the label, extracts the tracking number   *)
(* from the PDF, writes tracking number and carrier back to the database   *)
(* and finally writes the collected log to the order's MEMO field.         *)
(***************************************************************************)
EXTENDS Integers, Sequences, FiniteSets, TLC

(***************************************************************************)
(* Bounds of the model.                                                    *)
(***************************************************************************)
\* Largest number of rows the order query returns.
MaxRows == 2

\* Nesting levels added around the innermost values of the API responses of
\* the navigation specification.
MaxDepth == 2

\* Largest number of rows in the unit-code specification.
MaxCodeRows == 3

\* Pages of a stored PDF in the extraction specification.
MaxPages == 2

\* Calls of sign_request that are compared with each other.
MaxCalls == 2

(***************************************************************************)
(* Python values.  Every value is a record of the same shape so that       *)
(* values of different Python types can be compared:                       *)
(*   t = "NoKey"  the column is not part of the row (key not in dict)      *)
(*   t = "None"   None / SQL NULL                                          *)
(*   t = "str"    a string, s its characters                               *)
(*   t = "dec"    a number c / 10^e (coefficient c, e decimal places)      *)
(***************************************************************************)
NoKey == [t |-> "NoKey", s |-> <<>>, c |-> 0, e |-> 0]

None == [t |-> "None", s |-> <<>>, c |-> 0, e |-> 0]

Str(chars) == [t |-> "str", s |-> chars, c |-> 0, e |-> 0]

Dec(coef, places) == [t |-> "dec", s |-> <<>>, c |-> coef, e |-> places]

\* Truthiness of None and of strings, as used by "if x:" and "if not x:".
Truthy(v) == v.t = "str" /\ v.s # <<>>

Whitespace == {" "}

RECURSIVE lstrip(_)
lstrip(chars) ==
    IF chars # <<>> /\ Head(chars) \in Whitespace THEN lstrip(Tail(chars)) ELSE chars

RECURSIVE rstrip(_)
rstrip(chars) ==
    IF chars # <<>> /\ chars[Len(chars)] \in Whitespace
    THEN rstrip(SubSeq(chars, 1, Len(chars) - 1))
    ELSE chars

\* Only the leading whitespace removed.
strip_LeftOnly(chars) == lstrip(chars)

\* str.strip(): removes leading and trailing whitespace, keeps inner whitespace.
strip(chars) == rstrip(lstrip(chars))

(***************************************************************************)
(* Decimal arithmetic (decimal.Decimal on values within its precision).    *)
(***************************************************************************)
RECURSIVE Pow10(_)
Pow10(n) == IF n = 0 THEN 1 ELSE 10 * Pow10(n - 1)

Max(a, b) == IF a >= b THEN a ELSE b

Abs(x) == IF x < 0 THEN -x ELSE x

\* Decimal.__add__: exact, the result carries the larger number of places.
DecAdd(a, b) ==
    LET places == Max(a.e, b.e)
    IN  Dec(a.c * Pow10(places - a.e) + b.c * Pow10(places - b.e), places)

\* total * Decimal(multiplier) for an integer multiplier.
DecMul(a, multiplier) == Dec(a.c * multiplier, a.e)

\* int(d): the fraction cut off.
to_integral_value_TowardZero(d) ==
    LET p == Pow10(d.e)
        mag == Abs(d.c) \div p
    IN  IF d.c < 0 THEN -mag ELSE mag

\* int(d.to_integral_value(rounding=ROUND_HALF_UP)): nearest integer, a tie
\* goes away from zero.
to_integral_value(d) ==
    LET p == Pow10(d.e)
        q == Abs(d.c) \div p
        r == Abs(d.c) % p
        mag == IF 2 * r >= p THEN q + 1 ELSE q
    IN  IF d.c < 0 THEN -mag ELSE mag

\* ensure_decimal: Decimal(str(value)); a number converts exactly, a string
\* that is no number literal raises ValueError (ok = FALSE).
ensure_decimal(value) ==
    IF value.t = "dec"
    THEN [ok |-> TRUE, d |-> Dec(value.c, value.e)]
    ELSE [ok |-> FALSE, d |-> Dec(0, 0)]

(***************************************************************************)
(* aggregate_order_values                                                  *)
(***************************************************************************)
\* The "for key in field_names: if key in row: value = row[key]; break"
\* lookup: the value under the first column name the row has, None when the
\* row has none of them.
RECURSIVE lookup(_, _)
lookup(row, field_names) ==
    IF field_names = <<>> THEN None
    ELSE IF row[Head(field_names)].t # "NoKey" THEN row[Head(field_names)]
    ELSE lookup(row, Tail(field_names))

\* One pass of the loop body of sum_field over the remaining rows; ok = FALSE
\* when ensure_decimal raised.
RECURSIVE sum_loop(_, _, _)
sum_loop(rows, field_names, total) ==
    IF rows = <<>> THEN [ok |-> TRUE, d |-> total]
    ELSE LET found == lookup(Head(rows), field_names)
             value == IF found.t = "None" THEN Dec(10, 0) ELSE found
             conv  == ensure_decimal(value)
         IN  IF ~conv.ok THEN [ok |-> FALSE, d |-> total]
             ELSE sum_loop(Tail(rows), field_names, DecAdd(total, conv.d))

sum_field(rows, field_names, multiplier) ==
    LET loop == sum_loop(rows, field_names, Dec(0, 0))
    IN  [ok |-> loop.ok,
         v  |-> IF loop.ok THEN to_integral_value(DecMul(loop.d, multiplier)) ELSE 0]

\* The CODE1 loop: every present code, stringified and stripped, kept when
\* not empty, in row order.
RECURSIVE code_values(_)
code_values(rows) ==
    IF rows = <<>> THEN <<>>
    ELSE LET row == Head(rows)
             rest == code_values(Tail(rows))
         IN  IF row["code1"].t \in {"NoKey", "None"} THEN rest
             ELSE IF strip(row["code1"].s) = <<>> THEN rest
             ELSE <<strip(row["code1"].s)>> \o rest

NoAggregate(message) ==
    [err |-> message, ids_order_units |-> <<>>, weight_gram |-> 0,
     width_cm |-> 0, height_cm |-> 0, length_cm |-> 0]

\* aggregate_order_values without the "if not code_values" test.
aggregate_order_values_NoCodeTest(rows) ==
    LET codes  == code_values(rows)
        weight == sum_field(rows, <<"weight_gram", "bgewicht">>, 1000)
        width  == sum_field(rows, <<"width_cm", "bbreite">>, 10)
        height == sum_field(rows, <<"height_cm", "bhoehe">>, 10)
        length == sum_field(rows, <<"length_cm", "btiefe">>, 10)
    IN  IF rows = <<>> THEN NoAggregate("Keine Auftragsdaten vorhanden")
        ELSE IF ~weight.ok THEN NoAggregate("Ungueltiger Dezimalwert fuer weight_gram")
        ELSE IF ~width.ok THEN NoAggregate("Ungueltiger Dezimalwert fuer width_cm")
        ELSE IF ~height.ok THEN NoAggregate("Ungueltiger Dezimalwert fuer height_cm")
        ELSE IF ~length.ok THEN NoAggregate("Ungueltiger Dezimalwert fuer length_cm")
        ELSE [err |-> "", ids_order_units |-> codes, weight_gram |-> weight.v,
              width_cm |-> width.v, height_cm |-> height.v, length_cm |-> length.v]

\* err = "" on success, otherwise the message of the ValueError raised.
aggregate_order_values(rows) ==
    LET codes  == code_values(rows)
        weight == sum_field(rows, <<"weight_gram", "bgewicht">>, 1000)
        width  == sum_field(rows, <<"width_cm", "bbreite">>, 10)
        height == sum_field(rows, <<"height_cm", "bhoehe">>, 10)
        length == sum_field(rows, <<"length_cm", "btiefe">>, 10)
    IN  IF rows = <<>> THEN NoAggregate("Keine Auftragsdaten vorhanden")
        ELSE IF codes = <<>>
             THEN NoAggregate("Keine CODE1-Werte in den Auftragsdaten gefunden")
        ELSE IF ~weight.ok THEN NoAggregate("Ungueltiger Dezimalwert fuer weight_gram")
        ELSE IF ~width.ok THEN NoAggregate("Ungueltiger Dezimalwert fuer width_cm")
        ELSE IF ~height.ok THEN NoAggregate("Ungueltiger Dezimalwert fuer height_cm")
        ELSE IF ~length.ok THEN NoAggregate("Ungueltiger Dezimalwert fuer length_cm")
        ELSE [err |-> "", ids_order_units |-> codes, weight_gram |-> weight.v,
              width_cm |-> width.v, height_cm |-> height.v, length_cm |-> length.v]

(***************************************************************************)
(* Steps 3 and 4 of the main flow.                                         *)
(***************************************************************************)
\* Step 3 looking at the first row only: its trimmed BELEGNR when it has
\* one, the supplied order number otherwise.
resolve_order_number_FirstRow(rows, order_number) ==
    IF rows = <<>> THEN Str(order_number)
    ELSE LET v == Head(rows)["belegnr"]
         IN  IF v.t = "str" /\ strip(v.s) # <<>> THEN Str(strip(v.s))
             ELSE Str(order_number)

\* next((str(row['belegnr']).strip() for row in order_rows if ...), default)
RECURSIVE resolve_order_number(_, _)
resolve_order_number(rows, order_number) ==
    IF rows = <<>> THEN Str(order_number)
    ELSE LET v == Head(rows)["belegnr"]
         IN  IF v.t = "str" /\ strip(v.s) # <<>> THEN Str(strip(v.s))
             ELSE resolve_order_number(Tail(rows), order_number)

\* The fsrowid loop: the first row whose FSROWID is present decides, even
\* when its stripped value is empty.
RECURSIVE resolve_fsrowid_FirstNonBlank(_)
resolve_fsrowid_FirstNonBlank(rows) ==
    IF rows = <<>> THEN None
    ELSE LET v == Head(rows)["fsrowid"]
         IN  IF v.t = "str" /\ strip(v.s) # <<>> THEN Str(strip(v.s))
             ELSE resolve_fsrowid_FirstNonBlank(Tail(rows))

RECURSIVE resolve_fsrowid(_)
resolve_fsrowid(rows) ==
    IF rows = <<>> THEN None
    ELSE LET v == Head(rows)["fsrowid"]
         IN  IF v.t = "str" THEN Str(strip(v.s))
             ELSE resolve_fsrowid(Tail(rows))

(***************************************************************************)
(* find_download_url over a JSON value.  A node is                         *)
(*   [t |-> "dict", items |-> <<[k |-> key, v |-> node], ...>>, s |-> ""]   *)
(*   [t |-> "list", items |-> <<[k |-> "", v |-> node], ...>>, s |-> ""]    *)
(*   [t |-> "str",  items |-> <<>>, s |-> string]                          *)
(*   [t |-> "null", items |-> <<>>, s |-> ""]      (also Python's None)    *)
(* with the items of a dict in iteration order.                            *)
(***************************************************************************)
JStr(string) == [t |-> "str", items |-> <<>>, s |-> string]

JDict(items) == [t |-> "dict", items |-> items, s |-> ""]

JList(items) == [t |-> "list", items |-> items, s |-> ""]

JNull == [t |-> "null", items |-> <<>>, s |-> ""]

KV(key, node) == [k |-> key, v |-> node]

\* Truthiness of a JSON value: a non-empty string, dict or list.
JTruthy(node) ==
    \/ node.t = "str" /\ node.s # ""
    \/ node.t \in {"dict", "list"} /\ node.items # <<>>

\* payload.get(key): the value under the key, None when the key is absent.
RECURSIVE dict_get(_, _)
dict_get(items, key) ==
    IF items = <<>> THEN JNull
    ELSE IF Head(items).k = key THEN Head(items).v
    ELSE dict_get(Tail(items), key)

RECURSIVE find_download_url(_)
RECURSIVE find_in_values(_)
\* The two "for ...: result = find_download_url(...); if result: return result"
\* loops, over the values of a dict and over the items of a list.
find_in_values(items) ==
    IF items = <<>> THEN JNull
    ELSE LET result == find_download_url(Head(items).v)
         IN  IF JTruthy(result) THEN result ELSE find_in_values(Tail(items))

\* The values searched before the dict's own download_url key is looked at.
find_download_url_ValuesFirst(payload) ==
    IF payload.t = "dict"
    THEN (IF JTruthy(find_in_values(payload.items))
          THEN find_in_values(payload.items)
          ELSE IF JTruthy(dict_get(payload.items, "download_url"))
          THEN dict_get(payload.items, "download_url")
          ELSE JNull)
    ELSE IF payload.t = "list" THEN find_in_values(payload.items)
    ELSE JNull

find_download_url(payload) ==
    IF payload.t = "dict"
    THEN (IF JTruthy(dict_get(payload.items, "download_url"))
          THEN dict_get(payload.items, "download_url")
          ELSE find_in_values(payload.items))
    ELSE IF payload.t = "list" THEN find_in_values(payload.items)
    ELSE JNull

(***************************************************************************)
(* Step 13/14 helpers: the suffix of the URL path and the tracking regex.  *)
(***************************************************************************)
\* Path(urlsplit(download_url).path).suffix of the URLs the model uses.
url_suffix(url) ==
    CASE url = "https://dl/label.pdf" -> ".pdf"
      [] url = "https://dl/label.PDF" -> ".PDF"
      [] url = "https://dl/label.png" -> ".png"
      [] OTHER -> ""

\* str.lower() of a suffix.
lower(suffix) == IF suffix = ".PDF" THEN ".pdf" ELSE suffix

\* Length of the digit run the pattern \b\d{12}\b asks for.
TrackingLen == 12

IsDigit(ch) == ch \in {"0", "1", "2", "3", "4", "5", "6", "7", "8", "9"}

\* \w: letters, digits and the underscore.
IsWord(ch) == IsDigit(ch) \/ ch \in {"R", "e", "f", "E", "n", "d", "x", "_"}

\* \b at the gap before position i (1-based) of text: exactly one of the two
\* neighbouring characters is a word character.
WordBoundary(text, i) ==
    LET before == i > 1 /\ IsWord(text[i - 1])
        after  == i <= Len(text) /\ IsWord(text[i])
    IN  before # after

MatchesAt(text, i) ==
    /\ i + TrackingLen - 1 <= Len(text)
    /\ \A j \in i..(i + TrackingLen - 1) : IsDigit(text[j])
    /\ WordBoundary(text, i)
    /\ WordBoundary(text, i + TrackingLen)

\* re.search(r'\d{12}', pdf_text): the pattern without its word boundaries.
re_search_NoBoundary(text) ==
    LET starts == {i \in 1..Len(text) :
                      /\ i + TrackingLen - 1 <= Len(text)
                      /\ \A j \in i..(i + TrackingLen - 1) : IsDigit(text[j])}
    IN  IF starts = {} THEN <<>>
        ELSE LET first == CHOOSE i \in starts : \A j \in starts : i <= j
             IN  SubSeq(text, first, first + TrackingLen - 1)

\* re.search(r'\b\d{12}\b', pdf_text): the leftmost match, <<>> for None.
re_search(text) ==
    LET starts == {i \in 1..Len(text) : MatchesAt(text, i)}
    IN  IF starts = {} THEN <<>>
        ELSE LET first == CHOOSE i \in starts : \A j \in starts : i <= j
             IN  SubSeq(text, first, first + TrackingLen - 1)

(***************************************************************************)
(* Steps 6 and 7: the request body and sign_request.                       *)
(***************************************************************************)
\* ",".join of the quoted codes, as json.dumps writes a list of strings.
RECURSIVE dumps_list(_)
dumps_list(codes) ==
    IF codes = <<>> THEN <<>>
    ELSE <<"\"">> \o Head(codes) \o <<"\"">>
         \o (IF Tail(codes) = <<>> THEN <<>> ELSE <<",">> \o dumps_list(Tail(codes)))

\* json.dumps(json_data, separators=(',', ':'), ensure_ascii=False): the
\* keys in insertion order, no spaces.
json_dumps(shipment) ==
    <<"{", "\"ids_order_units\":", "[">> \o dumps_list(shipment.ids_order_units)
    \o <<"]", ",", "\"carriers\":", "[", "\"GLS\"", "]", ",",
         "\"package_measurements\":", "{",
         "\"weight_gram\":", ToString(shipment.weight_gram), ",",
         "\"width_cm\":", ToString(shipment.width_cm), ",",
         "\"height_cm\":", ToString(shipment.height_cm), ",",
         "\"length_cm\":", ToString(shipment.length_cm), "}", "}">>

\* "\n".join(parts)
RECURSIVE join_lines(_)
join_lines(parts) ==
    IF parts = <<>> THEN <<>>
    ELSE IF Tail(parts) = <<>> THEN Head(parts)
    ELSE Head(parts) \o <<"\n">> \o join_lines(Tail(parts))

\* Block size of SHA-256 in bytes: HMAC brings every key to this length.
BlockSize == 64

\* The zero byte.
NUL == "NUL"

\* The key as HMAC uses it: a key longer than a block is hashed first, a
\* shorter one is padded with zero bytes to the block size.
hmac_key(key) ==
    IF Len(key) > BlockSize
    THEN [hashed |-> TRUE, bytes |-> key]
    ELSE [hashed |-> FALSE, bytes |-> key \o [i \in 1..(BlockSize - Len(key)) |-> NUL]]

\* hmac.new(key, message, hashlib.sha256).hexdigest().  SHA-256 is kept
\* symbolic: a digest is written as the block-sized key and the message it
\* was computed from, so two digests are equal exactly when these are.
hmac_sha256(key, message) == [key |-> hmac_key(key), message |-> message]

\* sign_request with the timestamp left out of the message.
sign_request_NoTimestamp(method, uri_, body, timestamp, secret_key) ==
    hmac_sha256(secret_key, join_lines(<<method, uri_, body>>))

sign_request(method, uri_, body, timestamp, secret_key) ==
    hmac_sha256(secret_key, join_lines(<<method, uri_, body, timestamp>>))

\* Configuration: the two endpoints and the credentials.
test_uri == <<"https://sandbox/shipping-labels">>

live_uri == <<"https://live/shipping-labels">>

shop_client_key == <<"c", "k">>

shop_secret_key == <<"s", "k">>

\* A reading of time().
Epoch == 1700000000

(***************************************************************************)
(* The run: state of the module-level main flow.                           *)
(***************************************************************************)
VARIABLES
    db,                 \* rows the order query returns for the order (environment)
    args_order_number,  \* args.order_number: the argument as it was typed
    order_number_input, \* args.order_number.strip(), as characters
    pc,                 \* position of the main flow
    order_rows,         \* result of fetch_order_rows
    aggregated,         \* result of aggregate_order_values
    order_number_db,    \* BELEGNR used for the memo write, None until step 3
    fsrowid,            \* FSROWID used for the inserts
    response_json,      \* parsed body of the API response
    download_url,       \* result of find_download_url
    tracking_number,    \* match.group(0), <<>> until extracted
    log_messages,       \* the module-level list log_messages
    raised,             \* what the try block raised: "none", "SystemExit", "Exception"
    exit_status,        \* "running", then "clean" or "error" (exception propagated)
    writes,             \* persistence requests sent, in order
    uri,                \* the endpoint chosen by the sandbox switch
    clock,              \* what time() returns when step 7 reads it
    json_body,          \* the serialized request body, <<>> until step 7
    headers,            \* the request headers built in step 9
    signed,             \* history: calls of sign_request with their results
    posted,             \* history: POST requests handed to requests.post
    download_response,  \* content of the response to the download request
    label_files,        \* label files written to label_path: suffix and content
    ops,                \* history: external operations performed, in order
    failure             \* history: stage that failed and Len(ops) at that moment

vars == <<db, order_number_input, pc, order_rows, aggregated, order_number_db,
          fsrowid, response_json, download_url, tracking_number, log_messages,
          raised, exit_status, writes, download_response, label_files, ops,
          failure, uri, clock, json_body, headers, signed, posted,
          args_order_number>>

NoFailure == [stage |-> "", at |-> 0]

\* A row of the order query; the *_cm columns are never selected.
Row(code1, belegnr, rowid, weight_gram, bgewicht, bbreite, bhoehe, btiefe) ==
    [code1 |-> code1, belegnr |-> belegnr, fsrowid |-> rowid,
     weight_gram |-> weight_gram, bgewicht |-> bgewicht,
     width_cm |-> NoKey, bbreite |-> bbreite,
     height_cm |-> NoKey, bhoehe |-> bhoehe,
     length_cm |-> NoKey, btiefe |-> btiefe]

SeqsUpTo(S, n) == UNION {[1..k -> S] : k \in 0..n}

\* Rows of the pipeline specification: they vary the unit code, the order
\* number and the row identifier, with fixed valid measurements.
PipelineRows ==
    {Row(code1, belegnr, rowid, NoKey, Dec(25, 1), Dec(12, 1), None, Dec(3, 0)) :
        code1 \in {None, Str(<<" ", "A", "1">>)},
        belegnr \in {None, Str(<<"B", "7", " ">>)},
        rowid \in {None, Str(<<" ">>), Str(<<" ", "4", "2">>)}}

\* The order number as typed on the command line: blank, or a number.
Arguments == {<<" ">>, <<"N", "1">>}

OrderNumbers == {<<>>, <<"N", "1">>}

\* Bodies the API answers with (status 2xx, parsable JSON).
Payloads ==
    {JDict(<<KV("data", JList(<<KV("", JDict(<<KV("id", JStr("7")),
                KV("download_url", JStr("https://dl/label.pdf"))>>))>>))>>),
     JDict(<<KV("download_url", JStr("https://dl/label.PDF"))>>),
     JDict(<<KV("download_url", JStr("https://dl/label.png"))>>),
     JDict(<<KV("download_url", JStr("")), KV("status", JStr("ok"))>>),
     JDict(<<KV("status", JStr("ok"))>>)}

\* Texts PdfReader extracts from the stored PDF.
PdfTexts ==
    {<<"R", "e", "f", " ", "1", "2", "3", "4", "5", "6", "7", "8", "9", "0", "1", "2",
       " ", "E", "n", "d">>,
     <<"R", "e", "f", " ", "1", "2", "3", "4", " ", "E", "n", "d">>,
     <<"x", "1", "2", "3", "4", "5", "6", "7", "8", "9", "0", "1", "2">>,
     <<"1", "2", "3", "4", "5", "6", "7", "8", "9", "0", "1", "2", "3", " ",
       "9", "8", "7", "6", "5", "4", "3", "2", "1", "0", "9", "8">>}

\* What the download request answers with: bytes PdfReader cannot read, or a
\* PDF given by the result of extract_text() of each of its pages.
Unreadable == [readable |-> FALSE, pages |-> <<>>]

PdfFile(pages) == [readable |-> TRUE, pages |-> pages]

Downloads ==
    {Unreadable} \cup {PdfFile(<<Str(text)>>) : text \in PdfTexts}
    \cup {PdfFile(<<Str(<<"R", "e", "f", " ", "1", "2", "3", "4", "5", "6">>), None,
                    Str(<<"7", "8", "9", "0", "1", "2", " ", "E", "n", "d">>)>>)}

\* ''.join((page.extract_text() or '') for page in pdf_reader.pages)
RECURSIVE join_pages(_)
join_pages(pages) ==
    IF pages = <<>> THEN <<>>
    ELSE (IF Truthy(Head(pages)) THEN Head(pages).s ELSE <<>>) \o join_pages(Tail(pages))

\* The headers before step 9 has built them.
NoHeaders ==
    [shop_client_key |-> <<>>, shop_signature |-> hmac_sha256(<<>>, <<>>),
     shop_timestamp |-> <<>>]

\* One call of sign_request: its arguments and the digest it returned.
SignCall(method, uri_, body, timestamp, secret_key) ==
    [method |-> method, uri |-> uri_, body |-> body, timestamp |-> timestamp,
     secret_key |-> secret_key,
     digest |-> sign_request(method, uri_, body, timestamp, secret_key)]

\* The request as requests.post receives it.
Request(method, uri_, headers_, data) ==
    [method |-> method, uri |-> uri_, headers |-> headers_, data |-> data]

InitRun ==
    /\ pc = "step1"
    /\ order_rows = <<>>
    /\ aggregated = NoAggregate("")
    /\ order_number_db = None
    /\ fsrowid = None
    /\ response_json = JNull
    /\ download_url = JNull
    /\ tracking_number = <<>>
    /\ log_messages = <<>>
    /\ raised = "none"
    /\ exit_status = "running"
    /\ writes = <<>>
    /\ download_response = Unreadable
    /\ label_files = <<>>
    /\ ops = <<>>
    /\ failure = NoFailure
    /\ json_body = <<>>
    /\ headers = NoHeaders
    /\ signed = <<>>
    /\ posted = <<>>

Init ==
    /\ db \in SeqsUpTo(PipelineRows, MaxRows)
    /\ args_order_number \in Arguments
    /\ order_number_input = strip(args_order_number)
    /\ uri = live_uri
    /\ clock = Epoch
    /\ InitRun

\* Rows of the aggregation specification: they vary the measurements.  The
\* weight is 2.5, 5, 0.0005, 0.0004, -0.0005, absent in several ways, or no
\* number; width, height and depth are 0.05, 0.04, 1.2, 3 or absent.
AggWeights ==
    {<<NoKey, NoKey>>, <<NoKey, None>>, <<None, Dec(5, 0)>>, <<Dec(5, 0), NoKey>>,
     <<NoKey, Dec(25, 1)>>, <<NoKey, Dec(5, 4)>>, <<NoKey, Dec(4, 4)>>,
     <<NoKey, Dec(-5, 4)>>, <<NoKey, Str(<<"x">>)>>}

AggSizes ==
    {<<None, None, None>>, <<Dec(5, 2), Dec(12, 1), Dec(3, 0)>>,
     <<Dec(12, 1), Dec(4, 2), None>>}

AggRows ==
    {Row(Str(<<"A", "1">>), Str(<<"B", "7">>), Str(<<"4", "2">>),
         w[1], w[2], d[1], d[2], d[3]) : w \in AggWeights, d \in AggSizes}

InitAgg ==
    /\ db \in SeqsUpTo(AggRows, MaxRows)
    /\ args_order_number = <<"N", "1">>
    /\ order_number_input = strip(args_order_number)
    /\ uri = live_uri
    /\ clock = Epoch
    /\ InitRun

\* Rows of the unit-code specification: they vary CODE1.
CodeRows ==
    {Row(code1, Str(<<"B", "7">>), Str(<<"4", "2">>),
         NoKey, Dec(25, 1), Dec(12, 1), None, Dec(3, 0)) :
        code1 \in {NoKey, None, Str(<<" ">>), Str(<<" ", "A", "1", " ">>),
                   Str(<<"A", " ", "2">>), Str(<<"A", "1">>), Str(<<"B">>)}}

InitCodes ==
    /\ db \in SeqsUpTo(CodeRows, MaxCodeRows)
    /\ args_order_number = <<"N", "1">>
    /\ order_number_input = strip(args_order_number)
    /\ uri = live_uri
    /\ clock = Epoch
    /\ InitRun

\* log(message) for each message, in order.
log(messages) == log_messages' = log_messages \o messages

\* raise SystemExit(1) inside the try block, after the named stage failed.
RaiseSystemExit(stage) ==
    /\ raised' = "SystemExit"
    /\ pc' = "except"
    /\ failure' = [stage |-> stage, at |-> Len(ops')]

\* An exception other than SystemExit leaves the try block.
RaiseException(stage) ==
    /\ raised' = "Exception"
    /\ pc' = "except"
    /\ failure' = [stage |-> stage, at |-> Len(ops')]

\* The statement completed; control moves on.
Goto(label) ==
    /\ pc' = label
    /\ UNCHANGED <<raised, failure>>

\* Step 1: fetch_order_rows and the empty-result check.
Step1Fetch ==
    /\ pc = "step1"
    /\ ops' = Append(ops, "fetch")
    /\ \E outcome \in {"ok", "pyodbc.Error"} :
         IF outcome = "pyodbc.Error"
         THEN /\ log(<<"SQL-Fehler beim Abrufen der Auftragsdaten">>)
              /\ RaiseSystemExit("fetch")
              /\ UNCHANGED order_rows
         ELSE /\ order_rows' = db
              /\ IF db = <<>>
                 THEN /\ log(<<"Keine Daten fuer Auftragsnummer gefunden.">>)
                      /\ RaiseSystemExit("empty")
                 ELSE /\ log(<<>>)
                      /\ Goto("step2")
    /\ UNCHANGED <<db, args_order_number, uri, clock, json_body, headers, signed, posted, download_response, order_number_input, aggregated, order_number_db, fsrowid,
                   response_json, download_url, tracking_number, exit_status,
                   writes, label_files>>

\* Step 2: aggregate_order_values; a ValueError is logged and ends the run.
Step2Aggregate ==
    /\ pc = "step2"
    /\ ops' = Append(ops, "aggregate")
    /\ aggregated' = aggregate_order_values(order_rows)
    /\ IF aggregated'.err # ""
       THEN /\ log(<<aggregated'.err>>)
            /\ RaiseSystemExit("aggregate")
       ELSE /\ log(<<>>)
            /\ Goto("step3")
    /\ UNCHANGED <<db, args_order_number, uri, clock, json_body, headers, signed, posted, download_response, order_number_input, order_rows, order_number_db, fsrowid,
                   response_json, download_url, tracking_number, exit_status,
                   writes, label_files>>

\* json.dumps(json_data, ensure_ascii=False) with the default separators: a
\* space after every comma and colon.
RECURSIVE spaced(_)
spaced(tokens) ==
    IF tokens = <<>> THEN <<>>
    ELSE LET token == Head(tokens)
         IN  (IF token \in {",", "\"ids_order_units\":", "\"carriers\":",
                            "\"package_measurements\":", "\"weight_gram\":",
                            "\"width_cm\":", "\"height_cm\":", "\"length_cm\":"}
              THEN <<token, " ">> ELSE <<token>>) \o spaced(Tail(tokens))

\* Steps 3 to 9 signing a second serialization of json_data, not the string
\* that is sent.
Step3Resolve_SignsOtherBody ==
    /\ pc = "step3"
    /\ order_number_db' = resolve_order_number(order_rows, order_number_input)
    /\ fsrowid' = resolve_fsrowid(order_rows)
    /\ IF ~Truthy(fsrowid')
       THEN log(<<"Warnung: Keine FSROWID in den Auftragsdaten gefunden.">>)
       ELSE log(<<>>)
    /\ json_body' = json_dumps(aggregated)
    /\ LET shop_timestamp == <<ToString(clock)>>
           call == SignCall(<<"P", "O", "S", "T">>, uri, spaced(json_body'),
                            shop_timestamp, shop_secret_key)
       IN  /\ signed' = Append(signed, call)
           /\ headers' = [shop_client_key |-> shop_client_key,
                          shop_signature |-> call.digest,
                          shop_timestamp |-> shop_timestamp]
    /\ Goto("step10")
    /\ UNCHANGED <<db, args_order_number, uri, clock, posted, download_response, order_number_input,
                   order_rows, aggregated, response_json, download_url,
                   tracking_number, exit_status, writes, label_files, ops>>

\* Steps 3 to 9: BELEGNR and FSROWID are taken from the rows, the request
\* is prepared and signed; nothing here can fail.
Step3Resolve ==
    /\ pc = "step3"
    /\ order_number_db' = resolve_order_number(order_rows, order_number_input)
    /\ fsrowid' = resolve_fsrowid(order_rows)
    /\ IF ~Truthy(fsrowid')
       THEN log(<<"Warnung: Keine FSROWID in den Auftragsdaten gefunden.">>)
       ELSE log(<<>>)
    /\ json_body' = json_dumps(aggregated)
    /\ LET shop_timestamp == <<ToString(clock)>>
           call == SignCall(<<"P", "O", "S", "T">>, uri, json_body', shop_timestamp,
                            shop_secret_key)
       IN  /\ signed' = Append(signed, call)
           /\ headers' = [shop_client_key |-> shop_client_key,
                          shop_signature |-> call.digest,
                          shop_timestamp |-> shop_timestamp]
    /\ Goto("step10")
    /\ UNCHANGED <<db, args_order_number, uri, clock, posted, download_response, order_number_input,
                   order_rows, aggregated, response_json, download_url,
                   tracking_number, exit_status, writes, label_files, ops>>

\* Step 10: the signed POST, raise_for_status and response.json().
\* requests.post itself raising (transport failure) is outside the inner try.
Step10Post ==
    /\ pc = "step10"
    /\ ops' = Append(ops, "post")
    /\ posted' = Append(posted, Request(<<"P", "O", "S", "T">>, uri, headers, json_body))
    /\ \/ /\ log(<<>>)
          /\ RaiseException("post")
          /\ UNCHANGED response_json
       \/ /\ log(<<"Fehler bei der Anfrage oder beim Parsen der Antwort",
                   "response.text">>)
          /\ RaiseSystemExit("post")
          /\ UNCHANGED response_json
       \/ /\ response_json' \in Payloads
          /\ log(<<>>)
          /\ Goto("step11")
    /\ UNCHANGED <<db, args_order_number, uri, clock, json_body, headers, signed, download_response, order_number_input, order_rows, aggregated, order_number_db,
                   fsrowid, download_url, tracking_number, exit_status, writes,
                   label_files>>

\* Step 11: find_download_url on the parsed response.
Step11Navigate ==
    /\ pc = "step11"
    /\ ops' = Append(ops, "navigate")
    /\ download_url' = find_download_url(response_json)
    /\ IF ~JTruthy(download_url')
       THEN /\ log(<<"Keine Download-URL in der Antwort gefunden:", "response.text">>)
            /\ RaiseSystemExit("navigate")
       ELSE /\ log(<<"Download-URL">>)
            /\ Goto("step12")
    /\ UNCHANGED <<db, args_order_number, uri, clock, json_body, headers, signed, posted, download_response, order_number_input, order_rows, aggregated, order_number_db,
                   fsrowid, response_json, tracking_number, exit_status, writes,
                   label_files>>

\* Step 12 without its "raise SystemExit(1)": a failed download is logged and
\* the flow carries on with step 13.
Step12Download_NoRaise ==
    /\ pc = "step12"
    /\ ops' = Append(ops, "download")
    /\ \E outcome \in {"ok", "RequestException"}, content \in Downloads :
         IF outcome = "RequestException" \/ download_url.t # "str"
         THEN /\ log(<<"Download fehlgeschlagen", "Verwendete Request-Daten:",
                       "json_data">>)
              /\ raised' = raised
              /\ failure' = [stage |-> "download", at |-> Len(ops')]
              /\ pc' = "step13"
              /\ UNCHANGED download_response
         ELSE /\ download_response' = content
              /\ log(<<>>)
              /\ Goto("step13")
    /\ UNCHANGED <<db, args_order_number, uri, clock, json_body, headers, signed, posted, order_number_input, order_rows, aggregated, order_number_db,
                   fsrowid, response_json, download_url, tracking_number,
                   exit_status, writes, label_files>>

\* Step 12: requests.get(download_url, timeout=30) and raise_for_status.  A
\* value that is no string has no URL scheme and always fails.
Step12Download ==
    /\ pc = "step12"
    /\ ops' = Append(ops, "download")
    /\ \E outcome \in {"ok", "RequestException"}, content \in Downloads :
         IF outcome = "RequestException" \/ download_url.t # "str"
         THEN /\ log(<<"Download fehlgeschlagen", "Verwendete Request-Daten:",
                       "json_data">>)
              /\ RaiseSystemExit("download")
              /\ UNCHANGED download_response
         ELSE /\ download_response' = content
              /\ log(<<>>)
              /\ Goto("step13")
    /\ UNCHANGED <<db, args_order_number, uri, clock, json_body, headers, signed, posted, order_number_input, order_rows, aggregated, order_number_db,
                   fsrowid, response_json, download_url, tracking_number,
                   exit_status, writes, label_files>>

\* A file of label_path: the suffix of its name and its bytes.
LabelFile(suffix, content) == [suffix |-> suffix, content |-> content]

\* Step 13 writing the label twice, under two names.
Step13Save_Twice ==
    /\ pc = "step13"
    /\ ops' = Append(ops, "save")
    /\ \/ /\ log(<<>>)
          /\ RaiseException("save")
          /\ UNCHANGED label_files
       \/ /\ label_files' = label_files \o
                 <<LabelFile(url_suffix(download_url.s), download_response),
                   LabelFile(url_suffix(download_url.s), download_response)>>
          /\ log(<<"Dokument gespeichert">>)
          /\ IF lower(url_suffix(download_url.s)) = ".pdf"
             THEN Goto("step14")
             ELSE Goto("finally")
    /\ UNCHANGED <<db, args_order_number, uri, clock, json_body, headers, signed, posted,
                   download_response, order_number_input, order_rows, aggregated,
                   order_number_db, fsrowid, response_json, download_url,
                   tracking_number, exit_status, writes>>

\* Step 13 followed by a step 14 that does not test the suffix.
Step13Save_AlwaysExtract ==
    /\ pc = "step13"
    /\ ops' = Append(ops, "save")
    /\ \/ /\ log(<<>>)
          /\ RaiseException("save")
          /\ UNCHANGED label_files
       \/ /\ label_files' = Append(label_files,
                 LabelFile(url_suffix(download_url.s), download_response))
          /\ log(<<"Dokument gespeichert">>)
          /\ Goto("step14")
    /\ UNCHANGED <<db, args_order_number, uri, clock, json_body, headers, signed, posted, download_response, order_number_input, order_rows, aggregated,
                   order_number_db, fsrowid, response_json, download_url,
                   tracking_number, exit_status, writes>>

\* Step 13: write_bytes of the label; then the suffix decides whether the
\* PDF branch of step 14 is entered.  An OSError is not handled locally.
Step13Save ==
    /\ pc = "step13"
    /\ ops' = Append(ops, "save")
    /\ \/ /\ log(<<>>)
          /\ RaiseException("save")
          /\ UNCHANGED label_files
       \/ /\ label_files' = Append(label_files,
                 LabelFile(url_suffix(download_url.s), download_response))
          /\ log(<<"Dokument gespeichert">>)
          /\ IF lower(url_suffix(download_url.s)) = ".pdf"
             THEN Goto("step14")
             ELSE Goto("finally")
    /\ UNCHANGED <<db, args_order_number, uri, clock, json_body, headers, signed, posted, download_response, order_number_input, order_rows, aggregated,
                   order_number_db, fsrowid, response_json, download_url,
                   tracking_number, exit_status, writes>>

\* The file step 14 reads: the one step 13 has just written.
target_path == label_files[Len(label_files)]

\* Step 14 followed by a step 15 that does not test fsrowid.
Step14Extract_NoRowidTest ==
    /\ pc = "step14"
    /\ ops' = Append(ops, "extract")
    /\ IF ~target_path.content.readable
       THEN /\ log(<<"Fehler beim Auslesen der PDF">>)
            /\ RaiseSystemExit("extract")
            /\ UNCHANGED tracking_number
       ELSE LET pdf_text == join_pages(target_path.content.pages)
                match == re_search(pdf_text)
            IN  IF match = <<>>
                THEN /\ log(<<"Keine 12-stellige Nummer in der PDF gefunden.">>)
                     /\ RaiseSystemExit("extract")
                     /\ UNCHANGED tracking_number
                ELSE /\ tracking_number' = match
                     /\ log(<<"Gefundene 12-stellige Nummer">>)
                     /\ Goto("step15_tracking")
    /\ UNCHANGED <<db, args_order_number, uri, clock, json_body, headers, signed, posted, download_response, order_number_input, order_rows, aggregated,
                   order_number_db, fsrowid, response_json, download_url, exit_status,
                   writes, label_files>>

\* Step 14: PdfReader, text extraction and the regex search, followed by the
\* "if fsrowid" test of step 15.
Step14Extract ==
    /\ pc = "step14"
    /\ ops' = Append(ops, "extract")
    /\ IF ~target_path.content.readable
       THEN /\ log(<<"Fehler beim Auslesen der PDF">>)
            /\ RaiseSystemExit("extract")
            /\ UNCHANGED tracking_number
       ELSE LET pdf_text == join_pages(target_path.content.pages)
                match == re_search(pdf_text)
            IN  IF match = <<>>
                THEN /\ log(<<"Keine 12-stellige Nummer in der PDF gefunden.">>)
                     /\ RaiseSystemExit("extract")
                     /\ UNCHANGED tracking_number
                ELSE /\ tracking_number' = match
                     /\ IF Truthy(fsrowid)
                        THEN /\ log(<<"Gefundene 12-stellige Nummer">>)
                             /\ Goto("step15_tracking")
                        ELSE /\ log(<<"Gefundene 12-stellige Nummer",
                                      "Warnung: Keine FSROWID verfuegbar, Datenbankeintraege uebersprungen.">>)
                             /\ RaiseSystemExit("fsrowid")
    /\ UNCHANGED <<db, args_order_number, uri, clock, json_body, headers, signed, posted, download_response, order_number_input, order_rows, aggregated,
                   order_number_db, fsrowid, response_json, download_url, exit_status,
                   writes, label_files>>

\* A persistence request as the database sees it.
Write(kind, key, value, ok) == [kind |-> kind, key |-> key, value |-> value, ok |-> ok]

\* Step 15 without the carrier insert: after the tracking insert the flow
\* leaves the try block.
Step15Tracking_NoCarrier ==
    /\ pc = "step15_tracking"
    /\ ops' = Append(ops, "tracking")
    /\ \E ok \in BOOLEAN :
         /\ writes' = Append(writes,
                [kind |-> "tracking", key |-> fsrowid.s, value |-> tracking_number,
                 ok |-> ok])
         /\ IF ok
            THEN /\ log(<<"Tracking-Nummer erfolgreich in die Datenbank geschrieben.">>)
                 /\ Goto("finally")
            ELSE /\ log(<<"Fehler beim Schreiben in die Datenbank">>)
                 /\ RaiseSystemExit("tracking")
    /\ UNCHANGED <<db, args_order_number, uri, clock, json_body, headers, signed, posted, download_response, order_number_input, order_rows, aggregated, order_number_db,
                   fsrowid, response_json, download_url, tracking_number,
                   exit_status, label_files>>

\* Step 15 with one try block per insert: a failed tracking insert is logged
\* and the carrier insert is still sent.
Step15Tracking_CarryOn ==
    /\ pc = "step15_tracking"
    /\ ops' = Append(ops, "tracking")
    /\ \E ok \in BOOLEAN :
         /\ writes' = Append(writes,
                [kind |-> "tracking", key |-> fsrowid.s, value |-> tracking_number,
                 ok |-> ok])
         /\ IF ok
            THEN log(<<"Tracking-Nummer erfolgreich in die Datenbank geschrieben.">>)
            ELSE log(<<"Fehler beim Schreiben in die Datenbank">>)
         /\ Goto("step15_carrier")
    /\ UNCHANGED <<db, args_order_number, uri, clock, json_body, headers, signed, posted, download_response, order_number_input, order_rows, aggregated, order_number_db,
                   fsrowid, response_json, download_url, tracking_number,
                   exit_status, label_files>>

\* Step 15, first insert: insert_additional_field_value(fsrowid, tracking_number).
Step15Tracking ==
    /\ pc = "step15_tracking"
    /\ ops' = Append(ops, "tracking")
    /\ \E ok \in BOOLEAN :
         /\ writes' = Append(writes, Write("tracking", fsrowid.s, tracking_number, ok))
         /\ IF ok
            THEN /\ log(<<"Tracking-Nummer erfolgreich in die Datenbank geschrieben.">>)
                 /\ Goto("step15_carrier")
            ELSE /\ log(<<"Fehler beim Schreiben in die Datenbank">>)
                 /\ RaiseSystemExit("tracking")
    /\ UNCHANGED <<db, args_order_number, uri, clock, json_body, headers, signed, posted, download_response, order_number_input, order_rows, aggregated, order_number_db,
                   fsrowid, response_json, download_url, tracking_number,
                   exit_status, label_files>>

\* Step 15, second insert: insert_carrier_field_value(fsrowid).
Step15Carrier ==
    /\ pc = "step15_carrier"
    /\ ops' = Append(ops, "carrier")
    /\ \E ok \in BOOLEAN :
         /\ writes' = Append(writes, Write("carrier", fsrowid.s, <<"G", "L", "S">>, ok))
         /\ IF ok
            THEN /\ log(<<"Carrier-Wert (GLS) erfolgreich in die Datenbank geschrieben.">>)
                 /\ Goto("finally")
            ELSE /\ log(<<"Fehler beim Schreiben in die Datenbank">>)
                 /\ RaiseSystemExit("carrier")
    /\ UNCHANGED <<db, args_order_number, uri, clock, json_body, headers, signed, posted, download_response, order_number_input, order_rows, aggregated, order_number_db,
                   fsrowid, response_json, download_url, tracking_number,
                   exit_status, label_files>>

\* A handler that re-raises SystemExit as an error instead of passing.
ExceptSystemExit_Reraise ==
    /\ pc = "except"
    /\ raised = "SystemExit"
    /\ raised' = "Exception"
    /\ pc' = "finally"
    /\ UNCHANGED <<db, args_order_number, uri, clock, json_body, headers, signed,
                   posted, download_response, order_number_input, order_rows,
                   aggregated, order_number_db, fsrowid, response_json, download_url,
                   tracking_number, log_messages, exit_status, writes, label_files,
                   ops, failure>>

\* except SystemExit: pass
ExceptSystemExit ==
    /\ pc = "except"
    /\ raised = "SystemExit"
    /\ pc' = "finally"
    /\ UNCHANGED <<db, args_order_number, uri, clock, json_body, headers, signed, posted, download_response, order_number_input, order_rows, aggregated, order_number_db,
                   fsrowid, response_json, download_url, tracking_number,
                   log_messages, raised, exit_status, writes, label_files, ops,
                   failure>>

\* The handler re-raising without logging.
ExceptException_NoLog ==
    /\ pc = "except"
    /\ raised = "Exception"
    /\ pc' = "finally"
    /\ UNCHANGED <<db, args_order_number, uri, clock, json_body, headers, signed, posted, download_response, order_number_input, order_rows, aggregated, order_number_db,
                   fsrowid, response_json, download_url, tracking_number,
                   log_messages, raised, exit_status, writes, label_files, ops,
                   failure>>

\* except Exception: log and re-raise (the finally block runs first).
ExceptException ==
    /\ pc = "except"
    /\ raised = "Exception"
    /\ log(<<"Unerwarteter Fehler">>)
    /\ pc' = "finally"
    /\ UNCHANGED <<db, args_order_number, uri, clock, json_body, headers, signed, posted, download_response, order_number_input, order_rows, aggregated, order_number_db,
                   fsrowid, response_json, download_url, tracking_number, raised,
                   exit_status, writes, label_files, ops, failure>>

\* memo_text = "\n".join(log_messages)
memo_text == join_lines([i \in DOMAIN log_messages |-> <<log_messages[i]>>])

\* The memo write placed at the end of the try block instead of in finally:
\* it only happens when nothing was raised.
Finally_OnlyOnSuccess ==
    /\ pc = "finally"
    /\ IF Truthy(order_number_db) /\ raised = "none"
       THEN /\ ops' = Append(ops, "memo")
            /\ \E ok \in BOOLEAN :
                 /\ writes' = Append(writes,
                        Write("memo", order_number_db.s, memo_text, ok))
                 /\ IF ok THEN log(<<>>)
                    ELSE log(<<"Fehler beim Aktualisieren des Memos">>)
       ELSE /\ log(<<>>)
            /\ UNCHANGED <<ops, writes>>
    /\ pc' = "done"
    /\ exit_status' = IF raised = "Exception" THEN "error" ELSE "clean"
    /\ UNCHANGED <<db, args_order_number, uri, clock, json_body, headers, signed, posted, download_response, order_number_input, order_rows, aggregated, order_number_db,
                   fsrowid, response_json, download_url, tracking_number, raised,
                   label_files, failure>>

\* The guard testing "is not None" instead of truthiness: an empty key is
\* written too.
Finally_NotNoneGuard ==
    /\ pc = "finally"
    /\ IF order_number_db.t = "str"
       THEN /\ ops' = Append(ops, "memo")
            /\ \E ok \in BOOLEAN :
                 /\ writes' = Append(writes,
                        Write("memo", order_number_db.s, memo_text, ok))
                 /\ IF ok THEN log(<<>>)
                    ELSE log(<<"Fehler beim Aktualisieren des Memos">>)
       ELSE /\ log(<<>>)
            /\ UNCHANGED <<ops, writes>>
    /\ pc' = "done"
    /\ exit_status' = IF raised = "Exception" THEN "error" ELSE "clean"
    /\ UNCHANGED <<db, args_order_number, uri, clock, json_body, headers, signed, posted, download_response, order_number_input, order_rows, aggregated, order_number_db,
                   fsrowid, response_json, download_url, tracking_number, raised,
                   label_files, failure>>

\* A failed memo write sent a second time.
Finally_Retry ==
    /\ pc = "finally"
    /\ IF Truthy(order_number_db)
       THEN /\ ops' = Append(ops, "memo")
            /\ \E ok \in BOOLEAN :
                 /\ writes' =
                        IF ok
                        THEN Append(writes,
                                Write("memo", order_number_db.s, memo_text, TRUE))
                        ELSE writes \o
                             <<Write("memo", order_number_db.s, memo_text, FALSE),
                               Write("memo", order_number_db.s, memo_text, TRUE)>>
                 /\ IF ok THEN log(<<>>)
                    ELSE log(<<"Fehler beim Aktualisieren des Memos">>)
       ELSE /\ log(<<>>)
            /\ UNCHANGED <<ops, writes>>
    /\ pc' = "done"
    /\ exit_status' = IF raised = "Exception" THEN "error" ELSE "clean"
    /\ UNCHANGED <<db, args_order_number, uri, clock, json_body, headers, signed, posted, download_response, order_number_input, order_rows, aggregated, order_number_db,
                   fsrowid, response_json, download_url, tracking_number, raised,
                   label_files, failure>>

\* The memo write sending the last message alone instead of the joined log.
Finally_LastMessage ==
    /\ pc = "finally"
    /\ IF Truthy(order_number_db)
       THEN /\ ops' = Append(ops, "memo")
            /\ \E ok \in BOOLEAN :
                 /\ writes' = Append(writes,
                        Write("memo", order_number_db.s, <<log_messages[Len(log_messages)]>>, ok))
                 /\ IF ok THEN log(<<>>)
                    ELSE log(<<"Fehler beim Aktualisieren des Memos">>)
       ELSE /\ log(<<>>)
            /\ UNCHANGED <<ops, writes>>
    /\ pc' = "done"
    /\ exit_status' = IF raised = "Exception" THEN "error" ELSE "clean"
    /\ UNCHANGED <<db, args_order_number, uri, clock, json_body, headers, signed, posted, download_response, order_number_input, order_rows, aggregated, order_number_db,
                   fsrowid, response_json, download_url, tracking_number, raised,
                   label_files, failure>>

\* finally: step 16, the memo write, guarded by "if order_number_db"; then
\* the script ends, with the re-raised exception if there is one.
Finally ==
    /\ pc = "finally"
    /\ IF Truthy(order_number_db)
       THEN /\ ops' = Append(ops, "memo")
            /\ \E ok \in BOOLEAN :
                 /\ writes' = Append(writes,
                        Write("memo", order_number_db.s, memo_text, ok))
                 /\ IF ok THEN log(<<>>)
                    ELSE log(<<"Fehler beim Aktualisieren des Memos">>)
       ELSE /\ log(<<>>)
            /\ UNCHANGED <<ops, writes>>
    /\ pc' = "done"
    /\ exit_status' = IF raised = "Exception" THEN "error" ELSE "clean"
    /\ UNCHANGED <<db, args_order_number, uri, clock, json_body, headers, signed, posted, download_response, order_number_input, order_rows, aggregated, order_number_db,
                   fsrowid, response_json, download_url, tracking_number, raised,
                   label_files, failure>>

Next ==
    \/ Step1Fetch
    \/ Step2Aggregate
    \/ Step3Resolve
    \/ Step10Post
    \/ Step11Navigate
    \/ Step12Download
    \/ Step13Save
    \/ Step14Extract
    \/ Step15Tracking
    \/ Step15Carrier
    \/ ExceptSystemExit
    \/ ExceptException
    \/ Finally

Spec == Init /\ [][Next]_vars

\* The aggregation alone, on the rows the query returned.
NextAggregate ==
    \/ Step1Fetch
    \/ Step2Aggregate

SpecAgg == InitAgg /\ [][NextAggregate]_vars

SpecCodes == InitCodes /\ [][NextAggregate]_vars

\* Responses of the navigation specification: innermost values, wrapped
\* MaxDepth times in lists and dicts beside a second value.
NavBase ==
    {JNull, JStr("https://dl/label.pdf"), JDict(<<>>),
     JDict(<<KV("download_url", JStr("https://dl/label.png"))>>),
     JDict(<<KV("download_url", JStr(""))>>),
     JDict(<<KV("download_url", JNull), KV("id", JStr("7"))>>),
     JDict(<<KV("download_url", JList(<<KV("", JStr("https://dl/label.PDF"))>>))>>),
     JDict(<<KV("id", JStr("7"))>>)}

\* The second value put beside a wrapped one.
NavSide ==
    {JStr(""), JStr("https://dl/label.pdf"),
     JDict(<<KV("download_url", JStr("https://dl/label.png"))>>)}

RECURSIVE NavLevel(_)
NavLevel(n) ==
    IF n = 0 THEN NavBase
    ELSE LET inner == NavLevel(n - 1)
         IN  inner
             \cup {JList(<<KV("", x), KV("", y)>>) : x \in inner, y \in NavSide}
             \cup {JDict(<<KV("a", x), KV("b", y)>>) : x \in inner, y \in NavSide}
             \cup {JDict(<<KV("a", x), KV("download_url", y)>>) :
                      x \in inner, y \in NavSide}

NavRow ==
    Row(Str(<<"A", "1">>), Str(<<"B", "7">>), Str(<<"4", "2">>),
        NoKey, Dec(25, 1), Dec(12, 1), None, Dec(3, 0))

\* What steps 5 to 10 leave behind: the body, the signature and the headers
\* of the one request that was sent.
AfterPost ==
    /\ uri = live_uri
    /\ clock = Epoch
    /\ json_body = json_dumps(aggregated)
    /\ signed = <<SignCall(<<"P", "O", "S", "T">>, uri, json_body,
                           <<ToString(clock)>>, shop_secret_key)>>
    /\ headers = [shop_client_key |-> shop_client_key,
                  shop_signature |-> signed[1].digest,
                  shop_timestamp |-> <<ToString(clock)>>]
    /\ posted = <<Request(<<"P", "O", "S", "T">>, uri, headers, json_body)>>

\* The run after a POST that was answered with one of these responses.
InitNav ==
    /\ db = <<NavRow>>
    /\ args_order_number = <<"N", "1">>
    /\ order_number_input = strip(args_order_number)
    /\ pc = "step11"
    /\ order_rows = db
    /\ aggregated = aggregate_order_values(db)
    /\ order_number_db = resolve_order_number(db, order_number_input)
    /\ fsrowid = resolve_fsrowid(db)
    /\ response_json \in NavLevel(MaxDepth)
    /\ download_url = JNull
    /\ tracking_number = <<>>
    /\ log_messages = <<>>
    /\ raised = "none"
    /\ exit_status = "running"
    /\ writes = <<>>
    /\ download_response = Unreadable
    /\ label_files = <<>>
    /\ ops = <<"fetch", "aggregate", "post">>
    /\ failure = NoFailure
    /\ AfterPost

NextNavigate == Step11Navigate

SpecNav == InitNav /\ [][NextNavigate]_vars

\* Results of page.extract_text(): None, separators, word characters and
\* digit runs that are, or join to, runs of 12 and of 13 digits.
PageTexts ==
    {None, Str(<<" ">>), Str(<<"x">>), Str(<<"_">>), Str(<<"1">>),
     Str(<<"1", "2", "3", "4", "5", "6">>), Str(<<"7", "8", "9", "0", "1", "2">>),
     Str(<<"1", "2", "3", "4", "5", "6", "7", "8", "9", "0", "1", "2">>),
     Str(<<"9", "8", "7", "6", "5", "4", "3", "2", "1", "0", "9", "8", " ">>)}

\* The run after step 13 has stored a label named *.pdf, before step 14.
InitExtract ==
    /\ db = <<NavRow>>
    /\ args_order_number = <<"N", "1">>
    /\ order_number_input = strip(args_order_number)
    /\ pc = "step14"
    /\ order_rows = db
    /\ aggregated = aggregate_order_values(db)
    /\ order_number_db = resolve_order_number(db, order_number_input)
    /\ fsrowid = resolve_fsrowid(db)
    /\ response_json = JDict(<<KV("download_url", JStr("https://dl/label.pdf"))>>)
    /\ download_url = JStr("https://dl/label.pdf")
    /\ tracking_number = <<>>
    /\ log_messages = <<"Download-URL", "Dokument gespeichert">>
    /\ raised = "none"
    /\ exit_status = "running"
    /\ writes = <<>>
    /\ download_response \in
          {Unreadable} \cup {PdfFile(pages) : pages \in SeqsUpTo(PageTexts, MaxPages)}
    /\ label_files = <<LabelFile(url_suffix(download_url.s), download_response)>>
    /\ ops = <<"fetch", "aggregate", "post", "navigate", "download", "save">>
    /\ failure = NoFailure
    /\ AfterPost

NextExtract == Step14Extract

SpecExtract == InitExtract /\ [][NextExtract]_vars

\* The whole run on rows that vary CODE1.
\* Readings of time() in the signing specification.
Times == {Epoch, Epoch + 1}

\* The whole run under both endpoints and two clock readings, for one and
\* for two order rows.
InitSign ==
    /\ db \in {<<NavRow>>,
               <<NavRow, Row(Str(<<"B">>), None, None,
                             NoKey, Dec(12, 1), Dec(12, 1), None, Dec(3, 0))>>}
    /\ args_order_number \in Arguments
    /\ order_number_input = strip(args_order_number)
    /\ uri \in {test_uri, live_uri}
    /\ clock \in Times
    /\ InitRun

SpecSign == InitSign /\ [][Next]_vars

\* Arguments sign_request is called with when it is examined on its own.
SignMethods == {<<"P", "O", "S", "T">>, <<"G", "E", "T">>}

SignBodies == {<<"{", "}">>, <<"{", "\"carriers\":", "[", "\"GLS\"", "]", "}">>}

SignTimestamps == {<<ToString(t)>> : t \in Times}

SignKeys == {shop_secret_key, shop_secret_key \o <<NUL>>, <<"s">>}

\* A call of sign_request, outside the main flow.
SignRequestCall ==
    /\ Len(signed) < MaxCalls
    /\ \E method \in SignMethods, uri_ \in {test_uri, live_uri}, body \in SignBodies,
          timestamp \in SignTimestamps, secret_key \in SignKeys :
         signed' = Append(signed, SignCall(method, uri_, body, timestamp, secret_key))
    /\ UNCHANGED <<db, args_order_number, uri, clock, json_body, headers, posted, download_response,
                   order_number_input, pc, order_rows, aggregated, order_number_db,
                   fsrowid, response_json, download_url, tracking_number,
                   log_messages, raised, exit_status, writes, label_files, ops,
                   failure>>

InitCalls ==
    /\ db = <<>>
    /\ args_order_number = <<"N", "1">>
    /\ order_number_input = strip(args_order_number)
    /\ uri = live_uri
    /\ clock = Epoch
    /\ InitRun

NextCalls == SignRequestCall

SpecCalls == InitCalls /\ [][NextCalls]_vars

\* Rows of the memo-key specification: they vary BELEGNR; the last one has
\* no unit code.
KeyRows ==
    {Row(Str(<<"A", "1">>), belegnr, Str(<<"4", "2">>),
         NoKey, Dec(25, 1), Dec(12, 1), None, Dec(3, 0)) :
        belegnr \in {NoKey, None, Str(<<" ">>), Str(<<" ", "B", "7", " ">>),
                     Str(<<"C", "8">>)}}
    \cup {Row(None, Str(<<"C", "8">>), Str(<<"4", "2">>),
              NoKey, Dec(25, 1), Dec(12, 1), None, Dec(3, 0))}

InitKey ==
    /\ db \in SeqsUpTo(KeyRows, MaxRows)
    /\ args_order_number \in {<<" ">>, <<" ", "N", "1">>}
    /\ order_number_input = strip(args_order_number)
    /\ uri = live_uri
    /\ clock = Epoch
    /\ InitRun

SpecKey == InitKey /\ [][Next]_vars

\* Once something was raised, the handler and the finally block run to
\* their end: they wait for nothing but the memo write.
Fairness ==
    /\ WF_vars(ExceptSystemExit)
    /\ WF_vars(ExceptException)
    /\ WF_vars(Finally)

\* The runs of the memo-key specification that do not stop half-way through
\* an abort.
FairSpec == SpecKey /\ Fairness

\* Rows of the row-identifier specification: they vary FSROWID.
RowIdRows ==
    {Row(Str(<<"A", "1">>), Str(<<"B", "7">>), rowid,
         NoKey, Dec(25, 1), Dec(12, 1), None, Dec(3, 0)) :
        rowid \in {NoKey, None, Str(<<" ">>), Str(<<" ", "4", "2">>), Str(<<"7">>)}}

InitRowId ==
    /\ db \in SeqsUpTo(RowIdRows, MaxRows)
    /\ args_order_number = <<"N", "1">>
    /\ order_number_input = strip(args_order_number)
    /\ uri = live_uri
    /\ clock = Epoch
    /\ InitRun

SpecRowId == InitRowId /\ [][Next]_vars

InitCodesRun ==
    /\ db \in SeqsUpTo(CodeRows, MaxRows)
    /\ args_order_number = <<"N", "1">>
    /\ order_number_input = strip(args_order_number)
    /\ uri = live_uri
    /\ clock = Epoch
    /\ InitRun

SpecCodesRun == InitCodesRun /\ [][Next]_vars

(***************************************************************************)
(* Vocabulary of the properties.                                           *)
(***************************************************************************)
\* Kinds of the persistence requests sent so far, in order.
WriteKinds == [i \in DOMAIN writes |-> writes[i].kind]

CountKind(kind) == Cardinality({i \in DOMAIN writes : writes[i].kind = kind})

\* The run is over.
Done == pc = "done"

\* A 12-digit tracking number was extracted from the stored document.
Extracted == Len(tracking_number) = TrackingLen

\* Step 3 ran: a key for the memo write was resolved (possibly the empty
\* supplied order number).
KeyResolved == order_number_db.t = "str"

\* The run was aborted: by a handled failure (SystemExit) or an unexpected
\* exception.
Aborted == raised # "none"

NoDuplicates(seq) == \A i, j \in DOMAIN seq : seq[i] = seq[j] => i = j

\* Position of an operation in the pipeline.
StageIndex(op) ==
    CASE op = "fetch" -> 1 [] op = "aggregate" -> 2 [] op = "post" -> 3
      [] op = "navigate" -> 4 [] op = "download" -> 5 [] op = "save" -> 6
      [] op = "extract" -> 7 [] op = "tracking" -> 8 [] op = "carrier" -> 9
      [] op = "memo" -> 10

\* The messages that describe an abort at a stage.
AbortMessages(stage, kind) ==
    IF kind = "Exception" THEN {"Unerwarteter Fehler"}
    ELSE CASE stage = "fetch" -> {"SQL-Fehler beim Abrufen der Auftragsdaten"}
           [] stage = "empty" -> {"Keine Daten fuer Auftragsnummer gefunden."}
           [] stage = "aggregate" ->
                {"Keine Auftragsdaten vorhanden",
                 "Keine CODE1-Werte in den Auftragsdaten gefunden",
                 "Ungueltiger Dezimalwert fuer weight_gram",
                 "Ungueltiger Dezimalwert fuer width_cm",
                 "Ungueltiger Dezimalwert fuer height_cm",
                 "Ungueltiger Dezimalwert fuer length_cm"}
           [] stage = "post" -> {"Fehler bei der Anfrage oder beim Parsen der Antwort"}
           [] stage = "navigate" -> {"Keine Download-URL in der Antwort gefunden:"}
           [] stage = "download" -> {"Download fehlgeschlagen"}
           [] stage = "extract" ->
                {"Fehler beim Auslesen der PDF",
                 "Keine 12-stellige Nummer in der PDF gefunden."}
           [] stage = "fsrowid" ->
                {"Warnung: Keine FSROWID verfuegbar, Datenbankeintraege uebersprungen."}
           [] stage \in {"tracking", "carrier"} ->
                {"Fehler beim Schreiben in die Datenbank"}
           [] OTHER -> {}

Logged(messages) == \E i \in DOMAIN log_messages : log_messages[i] \in messages

(***************************************************************************)
(* C1                                                                      *)
(***************************************************************************)
\* C1 as stated: in every run, successful or aborted at any stage, the log
\* is flushed by exactly one memo write at termination.
C1_MemoExactlyOnceInEveryRun == Done => CountKind("memo") = 1

\* C1 amended: no memo write is sent before the cleanup phase; a run that
\* resolved a non-empty business identifier ends with exactly one memo write,
\* sent last, whether it succeeded or aborted; a run that resolved none (it
\* aborted at the fetch, on an empty result or in the aggregation, or the
\* key is the empty supplied order number) ends with no memo write.
C1_MemoOnceIffKey ==
    /\ ~Done => CountKind("memo") = 0
    /\ Done =>
         /\ CountKind("memo") = (IF Truthy(order_number_db) THEN 1 ELSE 0)
         /\ Truthy(order_number_db) => writes[Len(writes)].kind = "memo"

\* An aborted run (failed download) that flushed its log once.
C1_Witness ==
    /\ Done
    /\ failure.stage = "download"
    /\ CountKind("memo") = 1

(***************************************************************************)
(* C2                                                                      *)
(***************************************************************************)
\* C2 as stated: when API call, download and extraction succeeded, the label
\* is a PDF and a row identifier is available, the persistence requests are
\* exactly tracking, carrier, memo.
C2_ThreeWritesAfterExtraction ==
    (Done /\ Extracted /\ Truthy(fsrowid))
        => WriteKinds = <<"tracking", "carrier", "memo">>

\* C2 amended: the same, provided the tracking write succeeds and the
\* business identifier resolved in step 3 is not empty.
C2_ThreeWritesWhenTrackingStored ==
    (/\ Done
     /\ Extracted
     /\ Truthy(fsrowid)
     /\ \A i \in DOMAIN writes : writes[i].kind = "tracking" => writes[i].ok
     /\ Truthy(order_number_db))
        => WriteKinds = <<"tracking", "carrier", "memo">>

\* A fully successful run with its three writes.
C2_Witness ==
    /\ Done
    /\ raised = "none"
    /\ Extracted
    /\ WriteKinds = <<"tracking", "carrier", "memo">>
    /\ \A i \in DOMAIN writes : writes[i].ok

(***************************************************************************)
(* C3                                                                      *)
(***************************************************************************)
\* C3: fail-fast.  No operation is performed twice, operations happen in
\* pipeline order, and after a stage failed the only operation that may
\* still be performed is the memo write; no label file and no tracking or
\* carrier write follows the failure.
C3_FailFast ==
    /\ NoDuplicates(ops)
    /\ \A i, j \in DOMAIN ops : i < j => StageIndex(ops[i]) < StageIndex(ops[j])
    /\ failure.stage # "" =>
         /\ failure.at <= Len(ops)
         /\ SubSeq(ops, failure.at + 1, Len(ops)) \in {<<>>, <<"memo">>}
         /\ failure.stage \in {"fetch", "empty", "aggregate", "post", "navigate",
                               "download"} => label_files = <<>>
         /\ failure.stage \notin {"tracking", "carrier"} =>
                CountKind("tracking") + CountKind("carrier") = 0
         /\ failure.stage = "tracking" => CountKind("carrier") = 0

\* A run whose download-URL lookup failed and which then only wrote the memo.
C3_Witness ==
    /\ Done
    /\ failure.stage = "navigate"
    /\ ops = <<"fetch", "aggregate", "post", "navigate", "memo">>

(***************************************************************************)
(* C4                                                                      *)
(***************************************************************************)
\* C4 as stated: after an abort the memo write is skipped if and only if no
\* business identifier was resolved in the run.
C4_MemoSkippedIffUnresolved ==
    (Done /\ Aborted) => (CountKind("memo") = 0 <=> ~KeyResolved)

\* C4 amended: after an abort the memo write is attempted in the cleanup
\* phase with the business identifier step 3 resolved, and it is skipped if
\* and only if no non-empty identifier was resolved: step 3 was never
\* reached, or it resolved the empty supplied order number.
C4_MemoSkippedIffNoKey ==
    (Done /\ Aborted) =>
        /\ CountKind("memo") = 0 <=> (~KeyResolved \/ order_number_db.s = <<>>)
        /\ \A i \in DOMAIN writes : writes[i].kind = "memo" =>
              /\ i = Len(writes)
              /\ writes[i].key = order_number_db.s
              /\ writes[i].key =
                    resolve_order_number(order_rows, order_number_input).s

\* An aborted run whose memo was written under the BELEGNR of the rows.
C4_Witness ==
    /\ Done
    /\ raised = "SystemExit"
    /\ failure.stage = "post"
    /\ CountKind("memo") = 1
    /\ writes[1].key = <<"B", "7">>

(***************************************************************************)
(* C5                                                                      *)
(***************************************************************************)
\* C5: a tracking write or a carrier write is requested in a run if and
\* only if a 12-digit tracking number was extracted and the row identifier
\* the run resolved is not empty; in every other run neither is requested.
C5_WritesIffExtractedAndRowId ==
    /\ CountKind("tracking") + CountKind("carrier") > 0
          => (Extracted /\ Truthy(fsrowid))
    /\ Done => ((CountKind("tracking") + CountKind("carrier") > 0)
                    <=> (Extracted /\ Truthy(fsrowid)))

\* A run that extracted a number but resolved a blank row identifier, and
\* so requested neither write.
C5_Witness ==
    /\ Done
    /\ Extracted
    /\ fsrowid = Str(<<>>)
    /\ CountKind("tracking") + CountKind("carrier") = 0

(***************************************************************************)
(* C6                                                                      *)
(***************************************************************************)
\* C6: tracking and carrier are two separate requests, each sent at most
\* once; the carrier write directly follows a tracking write that succeeded;
\* a failed tracking or carrier write aborts the run (SystemExit(1) raised,
\* the database error logged); after a failed tracking write no carrier
\* write exists, and a failed carrier write leaves the tracking write stored.
C6_TwoSequentialWrites ==
    /\ CountKind("tracking") <= 1
    /\ CountKind("carrier") <= 1
    /\ \A i \in DOMAIN writes :
         /\ writes[i].kind = "carrier" =>
              /\ i > 1
              /\ writes[i - 1].kind = "tracking"
              /\ writes[i - 1].ok
              /\ writes[i - 1].key = writes[i].key
         /\ (writes[i].kind \in {"tracking", "carrier"} /\ ~writes[i].ok) =>
              /\ raised = "SystemExit"
              /\ failure.stage = writes[i].kind
              /\ Logged({"Fehler beim Schreiben in die Datenbank"})
              /\ \A j \in DOMAIN writes : j > i => writes[j].kind = "memo"
              /\ Done => exit_status = "clean"

\* A run whose carrier write failed after the tracking write was stored.
C6_Witness ==
    /\ Done
    /\ Len(writes) >= 2
    /\ writes[1].kind = "tracking" /\ writes[1].ok
    /\ writes[2].kind = "carrier" /\ ~writes[2].ok
    /\ raised = "SystemExit"

(***************************************************************************)
(* C7                                                                      *)
(***************************************************************************)
\* The state part of C7: at most one memo write, it is the last persistence
\* request and ends the run; its failure is the last message logged.
C7_MemoLast ==
    /\ CountKind("memo") <= 1
    /\ \A i \in DOMAIN writes : writes[i].kind = "memo" =>
         /\ i = Len(writes)
         /\ Done
         /\ ~writes[i].ok =>
              (/\ log_messages # <<>>
               /\ log_messages[Len(log_messages)] = "Fehler beim Aktualisieren des Memos")

\* The step part of C7: the cleanup phase leaves the result of the run (what
\* was raised, the failed stage) as it was, and the exit status follows from
\* it alone.
C7_ResultKept ==
    pc = "finally" =>
        /\ raised' = raised
        /\ failure' = failure
        /\ exit_status' = (IF raised = "Exception" THEN "error" ELSE "clean")

\* C7: the memo write is attempted at most once and only as the last
\* persistence request; its failure is logged, nothing is retried or written
\* afterwards, and the result determined before it is unchanged.
C7_MemoOnceLastResultKept == [](C7_MemoLast) /\ [][C7_ResultKept]_vars

\* A successful run whose memo write failed: still not aborted.
C7_Witness ==
    /\ Done
    /\ WriteKinds = <<"tracking", "carrier", "memo">>
    /\ ~writes[3].ok
    /\ raised = "none"
    /\ exit_status = "clean"

(***************************************************************************)
(* C8                                                                      *)
(***************************************************************************)
\* C8: every abort, at whichever stage, has a message describing it in the
\* execution log before the run terminates (for a handled failure already
\* when SystemExit is raised).
C8_AbortLogged ==
    /\ raised = "SystemExit" => Logged(AbortMessages(failure.stage, raised))
    /\ (raised = "Exception" /\ pc \in {"finally", "done"})
          => Logged(AbortMessages(failure.stage, raised))
    /\ Aborted <=> failure.stage # ""

\* A run ended by an unexpected exception of the POST, with its message.
C8_Witness ==
    /\ Done
    /\ raised = "Exception"
    /\ failure.stage = "post"
    /\ Logged({"Unerwarteter Fehler"})

(***************************************************************************)
(* C9                                                                      *)
(***************************************************************************)
\* Step 2 ran and returned a shipment.
AggregateReturned ==
    /\ \E i \in DOMAIN ops : ops[i] = "aggregate"
    /\ aggregated.err = ""

\* The value of a line item for a measurement: the one under the first of
\* the two column names the row has; absent when it has neither or NULL.
ItemValue(row, names) ==
    IF row[names[1]].t # "NoKey" THEN row[names[1]]
    ELSE IF row[names[2]].t # "NoKey" THEN row[names[2]]
    ELSE None

\* Decimal places of the finest value among the items.
Places(rows, names) ==
    LET all == {ItemValue(rows[i], names).e : i \in DOMAIN rows} \cup {0}
    IN  CHOOSE p \in all : \A q \in all : p >= q

\* What an item contributes, in units of 10^-places: its value, or 10.
Contribution(row, names, places) ==
    LET v == ItemValue(row, names)
    IN  IF v.t = "dec" THEN v.c * Pow10(places - v.e) ELSE 10 * Pow10(places)

RECURSIVE ExactSum(_, _, _, _)
ExactSum(rows, names, places, n) ==
    IF n = 0 THEN 0
    ELSE Contribution(rows[n], names, places) + ExactSum(rows, names, places, n - 1)

\* num / den rounded to the nearest integer, a tie away from zero.
RoundHalfUp(num, den) ==
    LET mag == (2 * Abs(num) + den) \div (2 * den)
    IN  IF num < 0 THEN -mag ELSE mag

Expected(rows, names, multiplier) ==
    LET places == Places(rows, names)
    IN  RoundHalfUp(ExactSum(rows, names, places, Len(rows)) * multiplier,
                    Pow10(places))

WeightNames == <<"weight_gram", "bgewicht">>

Weights(rows) == [i \in DOMAIN rows |-> ItemValue(rows[i], WeightNames)]

\* C9: each aggregated measurement is the exact decimal sum of the items'
\* values, an absent value counting 10 per item, times 1000 (weight) or 10
\* (width, height, length), rounded once after scaling, ties away from zero;
\* weights 2.5 and absent give 12500, weights 5 and absent give 15000.
C9_ScaledExactSums ==
    AggregateReturned =>
        /\ aggregated.weight_gram = Expected(order_rows, WeightNames, 1000)
        /\ aggregated.width_cm = Expected(order_rows, <<"width_cm", "bbreite">>, 10)
        /\ aggregated.height_cm = Expected(order_rows, <<"height_cm", "bhoehe">>, 10)
        /\ aggregated.length_cm = Expected(order_rows, <<"length_cm", "btiefe">>, 10)
        /\ Weights(order_rows) = <<Dec(25, 1), None>> => aggregated.weight_gram = 12500
        /\ Weights(order_rows) = <<Dec(5, 0), None>> => aggregated.weight_gram = 15000

\* Weights 2.5 and absent aggregated to 12500 gram, with a width sum of
\* 0.05 + 1.2 = 1.25 rounded up to 13 after scaling.
C9_Witness ==
    /\ AggregateReturned
    /\ Weights(order_rows) = <<Dec(25, 1), None>>
    /\ aggregated.weight_gram = 12500
    /\ aggregated.width_cm = 13

(***************************************************************************)
(* C10                                                                     *)
(***************************************************************************)
\* A string without its surrounding whitespace: from its first to its last
\* character that is no whitespace.
Trimmed(chars) ==
    LET keep == {i \in DOMAIN chars : chars[i] \notin Whitespace}
    IN  IF keep = {} THEN <<>>
        ELSE SubSeq(chars, CHOOSE a \in keep : \A i \in keep : a <= i,
                           CHOOSE b \in keep : \A i \in keep : b >= i)

\* Rows that carry a code which is neither absent nor blank.
CodedRows(rows) ==
    {i \in DOMAIN rows : rows[i]["code1"].t = "str"
                         /\ Trimmed(rows[i]["code1"].s) # <<>>}

\* The k-th smallest element of a set of numbers.
Nth(S, k) == CHOOSE i \in S : Cardinality({j \in S : j < i}) = k - 1

\* C10: aggregate returns the trimmed codes of the rows that carry a
\* non-blank code, one per such row, in row order (so in the order of their
\* first appearance); absent and blank codes are left out.
C10_CodesInRowOrder ==
    AggregateReturned =>
        LET coded == CodedRows(order_rows)
            ids == aggregated.ids_order_units
        IN  /\ Len(ids) = Cardinality(coded)
            /\ \A k \in DOMAIN ids :
                 ids[k] = Trimmed(order_rows[Nth(coded, k)]["code1"].s)

\* Codes " A1 ", blank, "B" aggregated to A1, B.
C10_Witness ==
    /\ AggregateReturned
    /\ Len(order_rows) = 3
    /\ order_rows[1]["code1"] = Str(<<" ", "A", "1", " ">>)
    /\ order_rows[2]["code1"] = Str(<<" ">>)
    /\ order_rows[3]["code1"] = Str(<<"B">>)
    /\ aggregated.ids_order_units = <<<<"A", "1">>, <<"B">>>>

(***************************************************************************)
(* C11                                                                     *)
(***************************************************************************)
\* Has the operation been performed in this run?
Performed(op) == \E i \in DOMAIN ops : ops[i] = op

\* C11: aggregate returns a shipment only for a non-empty sequence with at
\* least one non-blank unit code, and then with a non-empty code list;
\* otherwise it fails with the ValueError for the empty sequence or for the
\* missing codes.  In the run the failure is a handled abort at the
\* aggregation stage, and no POST has been or will be sent.
C11_NoEmptyShipment ==
    /\ aggregate_order_values(<<>>).err = "Keine Auftragsdaten vorhanden"
    /\ aggregate_order_values(db).err = "" <=> (db # <<>> /\ CodedRows(db) # {})
    /\ (db # <<>> /\ CodedRows(db) = {}) =>
          aggregate_order_values(db).err
              = "Keine CODE1-Werte in den Auftragsdaten gefunden"
    /\ aggregate_order_values(db).err = "" =>
          aggregate_order_values(db).ids_order_units # <<>>
    /\ AggregateReturned => aggregated.ids_order_units # <<>>
    /\ (Performed("aggregate") /\ aggregated.err # "") =>
          /\ raised = "SystemExit"
          /\ failure.stage = "aggregate"
          /\ ~Performed("post")
    /\ Performed("post") => AggregateReturned

\* A finished run on rows with only absent and blank codes: aborted in the
\* aggregation, nothing posted.
C11_Witness ==
    /\ Done
    /\ Len(order_rows) = 2
    /\ order_rows[1]["code1"] = Str(<<" ">>)
    /\ order_rows[2]["code1"] = None
    /\ failure.stage = "aggregate"
    /\ Logged({"Keine CODE1-Werte in den Auftragsdaten gefunden"})
    /\ ~Performed("post")

(***************************************************************************)
(* C12                                                                     *)
(***************************************************************************)
\* Every value stored under a key download_url, in depth-first order: at a
\* dict its own key first, then what its values hold, in iteration order; at
\* a list what its elements hold, in index order.
RECURSIVE Occurrences(_)
RECURSIVE OccurrencesIn(_, _)
OccurrencesIn(items, n) ==
    IF n > Len(items) THEN <<>>
    ELSE Occurrences(items[n].v) \o OccurrencesIn(items, n + 1)

Occurrences(node) ==
    LET own == {i \in DOMAIN node.items : node.items[i].k = "download_url"}
    IN  IF node.t = "dict"
        THEN [i \in 1..Cardinality(own) |-> node.items[Nth(own, i)].v]
             \o OccurrencesIn(node.items, 1)
        ELSE IF node.t = "list" THEN OccurrencesIn(node.items, 1)
        ELSE <<>>

\* The first truthy value of a sequence of values, None when there is none.
FirstTruthy(values) ==
    LET hits == {i \in DOMAIN values : JTruthy(values[i])}
    IN  IF hits = {} THEN JNull ELSE values[Nth(hits, 1)]

\* C12: find_download_url returns the first truthy value stored under a key
\* download_url in that depth-first order, and None when there is no such
\* key or every occurrence is falsy.
C12_FirstTruthyDownloadUrl ==
    /\ find_download_url(response_json) = FirstTruthy(Occurrences(response_json))
    /\ Performed("navigate") =>
          download_url = FirstTruthy(Occurrences(response_json))

\* The dict's own key wins over an occurrence nested in an earlier value,
\* and a falsy occurrence met before both is passed over.
C12_Witness ==
    /\ Performed("navigate")
    /\ response_json =
          JDict(<<KV("a", JList(<<KV("", JDict(<<KV("download_url", JStr(""))>>)),
                                  KV("", JDict(<<KV("download_url",
                                                    JStr("https://dl/label.png"))>>))>>)),
                  KV("download_url", JStr("https://dl/label.pdf"))>>)
    /\ download_url = JStr("https://dl/label.pdf")

(***************************************************************************)
(* C13                                                                     *)
(***************************************************************************)
\* The label was stored and its name does not end in .pdf (in any case).
StoredNonPdf ==
    /\ label_files # <<>>
    /\ lower(target_path.suffix) # ".pdf"

\* Nothing went wrong and nothing of steps 14 and 15 happened.
ExtractionSkipped ==
    /\ ~Aborted
    /\ failure = NoFailure
    /\ ~Performed("extract")
    /\ tracking_number = <<>>
    /\ CountKind("tracking") = 0
    /\ CountKind("carrier") = 0

\* C13 as stated: a run that stored a non-PDF label is not aborted, skips
\* extraction, requests no tracking or carrier write, and ends having sent
\* the memo write and nothing else.
C13_NonPdfEndsWithMemoWrite ==
    StoredNonPdf =>
        /\ ExtractionSkipped
        /\ Done => WriteKinds = <<"memo">> /\ exit_status = "clean"

\* C13: a run that stored a non-PDF label is not aborted, skips extraction
\* and requests no tracking or carrier write; it ends without error, and its
\* only persistence request is the memo write, sent when the resolved order
\* number is not empty.
C13_NonPdfSkipsExtraction ==
    StoredNonPdf =>
        /\ ExtractionSkipped
        /\ Done => /\ WriteKinds = IF Truthy(order_number_db) THEN <<"memo">> ELSE <<>>
                   /\ exit_status = "clean"

\* A .png label was stored and the run ended with the memo write alone.
C13_Witness ==
    /\ Done
    /\ StoredNonPdf
    /\ target_path.suffix = ".png"
    /\ WriteKinds = <<"memo">>
    /\ Performed("save")

(***************************************************************************)
(* C14                                                                     *)
(***************************************************************************)
\* Start positions of the runs of exactly 12 digits: 12 digits with no digit
\* directly before and none directly after.
ExactRuns(text) ==
    {a \in 1..Len(text) :
        /\ a + TrackingLen - 1 <= Len(text)
        /\ \A j \in a..(a + TrackingLen - 1) : IsDigit(text[j])
        /\ a > 1 => ~IsDigit(text[a - 1])
        /\ a + TrackingLen <= Len(text) => ~IsDigit(text[a + TrackingLen])}

\* Those of them that also have no letter and no underscore directly before
\* or after.
IsolatedRuns(text) ==
    {a \in ExactRuns(text) :
        /\ a > 1 => ~IsWord(text[a - 1])
        /\ a + TrackingLen <= Len(text) => ~IsWord(text[a + TrackingLen])}

\* The leftmost of a set of runs as a string, <<>> when the set is empty.
Leftmost(text, runs) ==
    IF runs = {} THEN <<>>
    ELSE SubSeq(text, Nth(runs, 1), Nth(runs, 1) + TrackingLen - 1)

\* The text of the stored document: its page texts in document order.
DocumentText == join_pages(target_path.content.pages)

\* Step 14 ran on a document PdfReader could read.
ExtractionRan == Performed("extract") /\ target_path.content.readable

\* C14 as stated: extraction returns the leftmost run of exactly 12 digits
\* that has a non-digit (or the end of the text) on both sides, and nothing
\* when the text has no such run.
C14_FirstRunBetweenNonDigits ==
    ExtractionRan =>
        tracking_number = Leftmost(DocumentText, ExactRuns(DocumentText))

\* C14: extraction returns the leftmost run of exactly 12 digits that has on
\* both sides the end of the text or a character that is neither a digit, a
\* letter nor an underscore; when the text has no such run it returns
\* nothing and the run is aborted at the extraction stage.
C14_FirstIsolatedRun ==
    ExtractionRan =>
        /\ tracking_number = Leftmost(DocumentText, IsolatedRuns(DocumentText))
        /\ IsolatedRuns(DocumentText) = {} <=> failure.stage = "extract"

\* Two pages, each with a run of 12 digits: the one of the first page wins.
C14_Witness ==
    /\ ExtractionRan
    /\ Len(target_path.content.pages) = 2
    /\ Cardinality(IsolatedRuns(DocumentText)) = 2
    /\ tracking_number = <<"9", "8", "7", "6", "5", "4", "3", "2", "1", "0", "9", "8">>

(***************************************************************************)
(* C15                                                                     *)
(***************************************************************************)
\* The message a signature must authenticate for a request: POST, the URI
\* the request goes to, the body it carries and the timestamp of its
\* header, each on a line of its own.
SignedMessage(request) ==
    <<"P", "O", "S", "T", "\n">> \o request.uri \o <<"\n">> \o request.data
    \o <<"\n">> \o request.headers.shop_timestamp

\* C15: the signature header of the request that is sent authenticates,
\* under the secret key, exactly POST, the URI of the request, the body that
\* is sent and the timestamp of the timestamp header; the timestamp is the
\* time read in this run, sign_request is called at most once per run and
\* at most one request is sent.
C15_SignatureCoversWhatIsSent ==
    /\ Len(signed) <= 1
    /\ Len(posted) <= 1
    /\ \A i \in DOMAIN posted :
          /\ posted[i].method = <<"P", "O", "S", "T">>
          /\ posted[i].uri = uri
          /\ posted[i].headers.shop_signature.message = SignedMessage(posted[i])
          /\ posted[i].headers.shop_signature.key = hmac_key(shop_secret_key)
          /\ posted[i].headers.shop_timestamp = <<ToString(clock)>>
          /\ Len(signed) = 1
          /\ posted[i].headers.shop_signature = signed[1].digest
          /\ posted[i].data = json_dumps(aggregated)

\* A request for two units was sent to the sandbox endpoint at the later of
\* the two times.
C15_Witness ==
    /\ Performed("post")
    /\ Len(posted) = 1
    /\ posted[1].uri = test_uri
    /\ posted[1].headers.shop_timestamp = <<ToString(Epoch + 1)>>
    /\ Len(aggregated.ids_order_units) = 2
    /\ Done

(***************************************************************************)
(* C16                                                                     *)
(***************************************************************************)
ArgumentNames == {"method", "uri", "body", "timestamp", "secret_key"}

\* The arguments in which two calls differ.
Changed(a, b) == {name \in ArgumentNames : a[name] # b[name]}

\* A key without its trailing zero bytes.
RECURSIVE TrimZeros(_)
TrimZeros(key) ==
    IF key # <<>> /\ key[Len(key)] = NUL
    THEN TrimZeros(SubSeq(key, 1, Len(key) - 1))
    ELSE key

UpToDownload == {"fetch", "empty", "aggregate", "post", "navigate", "download"}

\* C17: at most one label file is written in a run; when one is written,
\* the POST was answered with success and parsable JSON, a truthy download
\* URL was found in that answer, the download was performed and succeeded,
\* all before the write, and the file holds what the download returned; a
\* run that failed at or before the download has written no label file.
C17_LabelWrittenOnceAfterDownload ==
    /\ Len(label_files) <= 1
    /\ label_files # <<>> <=> Performed("save") /\ failure.stage # "save"
    /\ label_files # <<>> =>
          /\ SubSeq(ops, 1, 6) =
                <<"fetch", "aggregate", "post", "navigate", "download", "save">>
          /\ response_json \in Payloads
          /\ JTruthy(download_url)
          /\ download_url = find_download_url(response_json)
          /\ failure.stage \notin UpToDownload
          /\ failure.stage # "" => failure.at > 5
          /\ target_path.content = download_response
          /\ target_path.suffix = url_suffix(download_url.s)
    /\ failure.stage \in UpToDownload => label_files = <<>> /\ ~Performed("save")

\* A run that wrote its one label file and then failed at the extraction:
\* the file stays, and no second one is written.
C17_Witness ==
    /\ Done
    /\ Len(label_files) = 1
    /\ failure.stage = "extract"
    /\ Performed("download")

(***************************************************************************)
(* C18                                                                     *)
(***************************************************************************)
\* The messages, in order, with a newline between each two of them.
NewlineJoined(messages) ==
    [k \in 1..(2 * Len(messages) - 1) |->
        IF k % 2 = 1 THEN messages[(k + 1) \div 2] ELSE "\n"]

IsPrefix(short, long) ==
    Len(short) <= Len(long) /\ SubSeq(long, 1, Len(short)) = short

MemoFailed == "Fehler beim Aktualisieren des Memos"

\* At the end of a run, what the memo write was given is the log of the run
\* up to the cleanup: the whole log when the write succeeded, the log
\* without its last message, which reports the failure, when it failed.
C18_MemoText ==
    \A i \in DOMAIN writes :
        writes[i].kind = "memo" =>
            LET before == IF writes[i].ok THEN log_messages
                          ELSE SubSeq(log_messages, 1, Len(log_messages) - 1)
            IN  /\ writes[i].value = NewlineJoined(before)
                /\ ~writes[i].ok => log_messages[Len(log_messages)] = MemoFailed
                /\ \A k \in DOMAIN writes[i].value : writes[i].value[k] # MemoFailed

\* A step only appends to the log, and the step that sends the memo write
\* gives it the log as it is when the step begins.
C18_AppendOnly ==
    /\ IsPrefix(log_messages, log_messages')
    /\ CountKind("memo")' > CountKind("memo") =>
          writes'[Len(writes')].value = NewlineJoined(log_messages)

\* C18: the log only grows; the text of the memo write is the messages
\* logged before the cleanup, in order, joined by newlines; the message
\* about a failed memo write is appended after it and is not in the text.
C18_MemoIsLogBeforeCleanup == [](C18_MemoText) /\ [][C18_AppendOnly]_vars

\* A memo write that failed, after a run that had logged two messages.
C18_Witness ==
    /\ Done
    /\ writes # <<>>
    /\ writes[Len(writes)].kind = "memo"
    /\ ~writes[Len(writes)].ok
    /\ Len(writes[Len(writes)].value) = 3
    /\ Len(log_messages) = 3

(***************************************************************************)
(* C19                                                                     *)
(***************************************************************************)
\* The fetched rows whose BELEGNR is present and not blank.
RowsWithOrderNumber ==
    {i \in DOMAIN order_rows :
        /\ order_rows[i]["belegnr"].t = "str"
        /\ strip(order_rows[i]["belegnr"].s) # <<>>}

\* The key by the rule of C19, with the given fallback.
KeyByRule(fallback) ==
    IF RowsWithOrderNumber = {} THEN fallback
    ELSE strip(order_rows[Nth(RowsWithOrderNumber, 1)]["belegnr"].s)

\* The key is what the rule says, every memo write uses it, and it is
\* resolved only after a non-empty fetch and a successful aggregation.
KeyFollowsRule(fallback) ==
    /\ KeyResolved =>
          /\ order_number_db.s = KeyByRule(fallback)
          /\ SubSeq(ops, 1, 2) = <<"fetch", "aggregate">>
          /\ order_rows # <<>>
          /\ aggregated.err = ""
          /\ failure.stage \notin {"fetch", "empty", "aggregate"}
    /\ ~KeyResolved => order_number_db = None
    /\ \A i \in DOMAIN writes :
          writes[i].kind = "memo" => writes[i].key = KeyByRule(fallback)

\* C19 as stated: the fallback is the order number as it was supplied on
\* the command line.
C19_KeyFallsBackToArgument == KeyFollowsRule(args_order_number)

\* C19: the memo key is the trimmed BELEGNR of the first fetched row whose
\* BELEGNR is present and non-blank, and otherwise the supplied order number
\* with its leading and trailing whitespace removed; it is resolved only
\* after the rows were fetched non-empty and the aggregation succeeded.
C19_KeyFallsBackToTrimmedArgument == KeyFollowsRule(strip(args_order_number))

\* The first row's BELEGNR is blank, the second row's is " B7 ": the memo is
\* written under "B7".
C19_Witness ==
    /\ Done
    /\ Len(order_rows) = 2
    /\ order_rows[1]["belegnr"] = Str(<<" ">>)
    /\ order_rows[2]["belegnr"] = Str(<<" ", "B", "7", " ">>)
    /\ CountKind("memo") = 1
    /\ writes[Len(writes)].key = <<"B", "7">>

(***************************************************************************)
(* C20                                                                     *)
(***************************************************************************)
\* The stages whose failure the pipeline turns into SystemExit itself.
HandledStages ==
    {"fetch", "empty", "aggregate", "post", "navigate", "download", "extract",
     "fsrowid", "tracking", "carrier"}

\* What holds of an abort in every state: the process ends only in the
\* cleanup, a SystemExit ends it without error, an exception is logged by
\* the handler before the cleanup and ends the process with the error.
AbortHandled ==
    /\ exit_status # "running" <=> Done
    /\ failure.stage # "" <=> Aborted
    /\ raised = "SystemExit" =>
          /\ failure.stage \in HandledStages
          /\ Done => exit_status = "clean"
    /\ raised = "Exception" =>
          /\ failure.stage \in {"post", "save"}
          /\ pc \in {"finally", "done"} => Logged({"Unerwarteter Fehler"})
          /\ Done => exit_status = "error"
    /\ exit_status = "error" => raised = "Exception"

\* The memo write of the cleanup was sent, after everything else.
MemoSent ==
    /\ CountKind("memo") = 1
    /\ writes[Len(writes)].kind = "memo"
    /\ ops[Len(ops)] = "memo"

\* C20 as stated: a SystemExit is caught and the process ends without
\* error after the cleanup; an exception is logged, the cleanup runs with
\* its memo write, and then the exception leaves the run.
C20_CleanupWithMemoThenPropagate ==
    /\ [](AbortHandled)
    /\ []((Done /\ raised = "Exception") => MemoSent)
    /\ (Aborted ~> Done)

\* C20: a SystemExit is caught and the process ends without error after the
\* cleanup; an exception is logged, the cleanup runs, sending the memo write
\* when the resolved order number is not empty, and then the exception
\* leaves the run.
C20_CleanupThenPropagate ==
    /\ [](AbortHandled)
    /\ []((Done /\ raised = "Exception") =>
             IF Truthy(order_number_db) THEN MemoSent ELSE CountKind("memo") = 0)
    /\ (Aborted ~> Done)

\* The POST failed in transport; the error was logged, the memo was written
\* with that message in it, and the run ended with the error.
C20_Witness ==
    /\ Done
    /\ raised = "Exception"
    /\ failure.stage = "post"
    /\ exit_status = "error"
    /\ MemoSent
    /\ writes[Len(writes)].value[Len(writes[Len(writes)].value)] = "Unerwarteter Fehler"

(***************************************************************************)
(* C21                                                                     *)
(***************************************************************************)
\* The fetched rows whose FSROWID is present: the column exists and is not
\* NULL.
RowsWithRowId == {i \in DOMAIN order_rows : order_rows[i]["fsrowid"].t = "str"}

\* The identifier of the first of them, trimmed; None when there is none.
FirstRowId ==
    IF RowsWithRowId = {} THEN None
    ELSE Str(strip(order_rows[Nth(RowsWithRowId, 1)]["fsrowid"].s))

NoRowIdAtStep4 == "Warnung: Keine FSROWID in den Auftragsdaten gefunden."

NoRowIdAtStep15 ==
    "Warnung: Keine FSROWID verfuegbar, Datenbankeintraege uebersprungen."

\* C21: the row identifier is the trimmed FSROWID of the first fetched row
\* whose FSROWID is present, blank or not.  When it is missing or blank, a
\* warning is logged and nothing is aborted for that reason before the
\* extraction: only after a 12-digit number was extracted is the run aborted
\* at the row-identifier test, with its warning logged, and no tracking or
\* carrier write is ever requested.
C21_FirstPresentRowId ==
    /\ KeyResolved => fsrowid = FirstRowId
    /\ ~KeyResolved => fsrowid = None
    /\ (KeyResolved /\ ~Truthy(fsrowid)) =>
          /\ Logged({NoRowIdAtStep4})
          /\ CountKind("tracking") + CountKind("carrier") = 0
          /\ ~Performed("tracking") /\ ~Performed("carrier")
          /\ Extracted =>
                /\ SubSeq(ops, 1, 7) = <<"fetch", "aggregate", "post", "navigate",
                                         "download", "save", "extract">>
                /\ label_files # <<>>
                /\ raised = "SystemExit"
                /\ failure = [stage |-> "fsrowid", at |-> 7]
                /\ Logged({NoRowIdAtStep15})
          /\ failure.stage = "fsrowid" => Extracted
    /\ failure.stage = "fsrowid" => KeyResolved /\ ~Truthy(fsrowid)

\* The first row's FSROWID is blank, the second row's is " 42": the run goes
\* as far as the extraction, is aborted there and writes the memo only.
C21_Witness ==
    /\ Done
    /\ Len(order_rows) = 2
    /\ order_rows[1]["fsrowid"] = Str(<<" ">>)
    /\ order_rows[2]["fsrowid"] = Str(<<" ", "4", "2">>)
    /\ fsrowid = Str(<<>>)
    /\ Extracted
    /\ failure.stage = "fsrowid"
    /\ WriteKinds = <<"memo">>

====
